---- MODULE Spec2Model ----
(***************************************************************************)
(* A model of Assignment.py: a Flask service with four POST endpoints that *)
(* each open one Netmiko SSH session to a fixed device, run one query      *)
(* command or one configuration command list, and return the device text   *)
(* as JSON.                                                                *)
(*                                                                         *)
(* Python strings are modelled as sequences of one-character strings, so   *)
(* that split, strip and f-string formatting are computed as the code      *)
(* computes them.                                                          *)
(***************************************************************************)
EXTENDS Integers, Sequences, FiniteSets, TLC

(***************************************************************************)
(* Bounds of the model.                                                    *)
(***************************************************************************)
\* number of HTTP requests the service receives (they may all be in flight
\* at once: Flask serves each request on its own thread)
NumReqs == 2
\* longest raw text given to the formatter in SpecFmt
MaxLen == 4

Reqs == 1..NumReqs

(***************************************************************************)
(* String literals of the source.                                          *)
(***************************************************************************)
S_interface == <<"i", "n", "t", "e", "r", "f", "a", "c", "e", " ", "L", "o", "o", "p", "b", "a", "c", "k">>
S_ip_address == <<"i", "p", " ", "a", "d", "d", "r", "e", "s", "s", " ">>
S_no_interface == <<"n", "o", " ", "i", "n", "t", "e", "r", "f", "a", "c", "e", " ", "L", "o", "o", "p", "b", "a", "c", "k">>
S_commit == <<"c", "o", "m", "m", "i", "t">>
S_exit == <<"e", "x", "i", "t">>
S_show == <<"s", "h", "o", "w", " ", "i", "p", " ", "i", "n", "t", "e", "r", "f", "a", "c", "e", " ", "b", "r", "i", "e", "f">>
S_None == <<"N", "o", "n", "e">>
S_NetmikoError == <<"N", "e", "t", "m", "i", "k", "o", " ", "E", "r", "r", "o", "r", ":", " ">>

Route_network_interaction == "/network_interaction"
Route_configure_loopback == "/configure_loopback"
Route_delete_loopback == "/delete_loopback"
Route_device_interfaces == "/device_interfaces"
Routes ==
    {Route_network_interaction, Route_configure_loopback,
     Route_delete_loopback, Route_device_interfaces}

(***************************************************************************)
(* JSON values of a request body, and the bodies the model sends.          *)
(* data.get(k) is None both for an absent key and for a JSON null.         *)
(***************************************************************************)
JNone == [t |-> "none", i |-> 0, s |-> <<>>]
JInt(n) == [t |-> "int", i |-> n, s |-> <<>>]
JStr(x) == [t |-> "str", i |-> 0, s |-> x]

\* a body request.json cannot turn into an object: request.json raises, or
\* yields None or a list and data.get raises
NoJson == [object |-> FALSE, command |-> JNone, loopback_number |-> JNone, ip_address |-> JNone]
Obj(c, n, a) == [object |-> TRUE, command |-> c, loopback_number |-> n, ip_address |-> a]

Cmd_show_version == <<"s", "h", "o", "w", " ", "v", "e", "r", "s", "i", "o", "n">>
Addr_10_0_0_1 == <<"1", "0", ".", "0", ".", "0", ".", "1">>
Malformed_number == <<"x", "5">>

\* a body that is no object; a body with every field any route reads; bodies
\* with fields missing; a body with fields of the wrong type
Bodies ==
    {NoJson,
     Obj(JStr(Cmd_show_version), JInt(5), JStr(Addr_10_0_0_1)),
     Obj(JNone, JInt(120), JNone),
     Obj(JNone, JNone, JStr(Addr_10_0_0_1)),
     Obj(JNone, JStr(Malformed_number), JInt(7))}

(***************************************************************************)
(* What the device and the Netmiko library can answer.                     *)
(***************************************************************************)
\* "auth\n failed": exception messages can span lines
Msg_auth == <<"a", "u", "t", "h", "\n", " ", "f", "a", "i", "l", "e", "d">>
Msg_timeout == <<"t", "i", "m", "e", "d", " ", "o", "u", "t">>
Msg_type == <<"b", "a", "d", " ", "c", "o", "m", "m", "a", "n", "d">>
Msg_json == <<"b", "a", "d", " ", "b", "o", "d", "y">>
Dev_invalid == <<"%", " ", "I", "n", "v", "a", "l", "i", "d">>
Text_brief == <<"G", "i", "0", " ", "u", "p", "\n", "\n", " ", "G", "i", "1", " ", "d", "o", "w", "n", " ">>
Text_blank == <<" ", "\n", "\t", "\n">>

\* messages of the exceptions ConnectHandler raises
ConnectErrors == {Msg_auth}
\* messages of the exceptions send_command and send_config_set raise
CommandErrors == {Msg_timeout}
\* texts the device answers to a query command
DeviceTexts == {Text_brief, Text_blank}

(***************************************************************************)
(* Pure functions of the source.                                           *)
(***************************************************************************)
\* the characters str.strip() removes
Whitespace == {" ", "\t", "\n", "\r", "\f"}

RECURSIVE lstrip(_)
lstrip(s) ==
    IF s # <<>> /\ Head(s) \in Whitespace THEN lstrip(Tail(s)) ELSE s

RECURSIVE rstrip(_)
rstrip(s) ==
    IF s # <<>> /\ s[Len(s)] \in Whitespace
    THEN rstrip(SubSeq(s, 1, Len(s) - 1))
    ELSE s

\* a strip that forgets the right end
strip_left_only(s) == lstrip(s)

\* str.strip()
strip(s) == rstrip(lstrip(s))

\* str.split('\n'): the pieces between newlines, empty pieces included
RECURSIVE split(_)
split(s) ==
    IF \A i \in 1..Len(s) : s[i] # "\n"
    THEN <<s>>
    ELSE LET i == CHOOSE j \in 1..Len(s) :
                      s[j] = "\n" /\ \A k \in 1..(j - 1) : s[k] # "\n"
         IN  <<SubSeq(s, 1, i - 1)>> \o split(SubSeq(s, i + 1, Len(s)))

\* [line.strip() for line in pieces if line.strip()]
RECURSIVE StrippedNonEmpty(_)
StrippedNonEmpty(pieces) ==
    IF pieces = <<>>
    THEN <<>>
    ELSE IF strip(Head(pieces)) # <<>>
         THEN <<strip(Head(pieces))>> \o StrippedNonEmpty(Tail(pieces))
         ELSE StrippedNonEmpty(Tail(pieces))

format_response(netmiko_response) ==
    [netmiko_response |-> StrippedNonEmpty(split(netmiko_response))]

Digit(d) == <<"0", "1", "2", "3", "4", "5", "6", "7", "8", "9">>[d + 1]

\* str(n) of an integer
RECURSIVE IntStr(_)
IntStr(n) ==
    IF n < 0 THEN <<"-">> \o IntStr(-n)
    ELSE IF n < 10 THEN <<Digit(n)>>
    ELSE IntStr(n \div 10) \o <<Digit(n % 10)>>

\* what an f-string writes for {v}
fstr(v) ==
    CASE v.t = "int" -> IntStr(v.i)
      [] v.t = "str" -> v.s
      [] OTHER -> S_None

\* the commit issued before the address is assigned
configure_loopback_commands_reordered(loopback_number, ip_address) ==
    << S_interface \o fstr(loopback_number),
       S_commit,
       S_ip_address \o fstr(ip_address),
       S_exit >>

\* the list config_commands of configure_loopback
configure_loopback_commands(loopback_number, ip_address) ==
    << S_interface \o fstr(loopback_number),
       S_ip_address \o fstr(ip_address),
       S_commit,
       S_exit >>

\* the "no " of the removal forgotten: the interface is declared instead
delete_loopback_commands_declares(loopback_number) ==
    << S_interface \o fstr(loopback_number),
       S_commit,
       S_exit >>

\* the list delete_commands of delete_loopback
delete_loopback_commands(loopback_number) ==
    << S_no_interface \o fstr(loopback_number),
       S_commit,
       S_exit >>

\* f'Netmiko Error: {str(e)}'
NetmikoError(msg) == S_NetmikoError \o msg

(***************************************************************************)
(* The Netmiko calls of the two adapters, as the answers they produce.     *)
(***************************************************************************)
\* ssh_conn.send_command(command) answered by the device with text
send_command(cmd, text) == [sent |-> <<cmd>>, output |-> text]

\* the text a configuration session collects: each command as it was sent,
\* followed by the device's complaint after the one it rejects (k, 0 for none)
RECURSIVE ConfigOutput(_, _, _)
ConfigOutput(cmds, k, i) ==
    IF i > Len(cmds)
    THEN <<>>
    ELSE cmds[i] \o <<"\n">>
         \o (IF i = k THEN Dev_invalid \o <<"\n">> ELSE <<>>)
         \o ConfigOutput(cmds, k, i + 1)

\* a configuration call that gives up at the command the device rejects
send_config_set_stops(cmds, k) ==
    [sent |-> IF k = 0 THEN cmds ELSE SubSeq(cmds, 1, k),
     output |-> ConfigOutput(IF k = 0 THEN cmds ELSE SubSeq(cmds, 1, k), k, 1)]

\* ssh_conn.send_config_set(config_commands) with no error_pattern: every
\* command of the list is sent in order whatever the device answers
send_config_set(cmds, k) == [sent |-> cmds, output |-> ConfigOutput(cmds, k, 1)]

\* a session disconnected only after a command that succeeded
with_exit_leaks(ss, sid, raised) ==
    IF raised THEN ss ELSE [ss EXCEPT ![sid].open = FALSE]

\* leaving the with block, by return or by exception, disconnects the session
with_exit(ss, sid, raised) == [ss EXCEPT ![sid].open = FALSE]

(***************************************************************************)
(* State.                                                                  *)
(***************************************************************************)
VARIABLES
    pc,               \* where each request is: idle, received, connect,
                      \* session, returned, done
    endpoint,         \* the route of each request
    data,             \* request.json of each request
    called,           \* the adapter functions each handler has called
    command,          \* the argument of send_netmiko_request
    config_commands,  \* the argument of send_netmiko_config
    attempts,         \* ConnectHandler calls made for each request
    ssh_conn,         \* the session of each request (0: none)
    sessions,         \* every session ever established: owner and open flag
    sent,             \* the commands the device received from each request
    rejected,         \* index of the configuration command the device rejected
    exc,              \* the exception Netmiko raised inside the adapter
    netmiko_response, \* what the adapter returned to the handler
    status,           \* HTTP status of the response (0: not responded)
    response,         \* JSON body of the response
    fmtPc,            \* formatter run: off, input, formatted
    fmtIn,            \* raw text given to format_response
    fmtOut            \* what format_response returned

reqVars ==
    <<pc, endpoint, data, called, command, config_commands, attempts,
      ssh_conn, sessions, sent, rejected, exc, netmiko_response, status,
      response>>
fmtVars == <<fmtPc, fmtIn, fmtOut>>
vars == <<reqVars, fmtVars>>

NoExc == [where |-> "none", msg |-> <<>>]

InitReqs ==
    /\ pc = [r \in Reqs |-> "idle"]
    /\ endpoint = [r \in Reqs |-> ""]
    /\ data = [r \in Reqs |-> NoJson]
    /\ called = [r \in Reqs |-> <<>>]
    /\ command = [r \in Reqs |-> JNone]
    /\ config_commands = [r \in Reqs |-> <<>>]
    /\ attempts = [r \in Reqs |-> 0]
    /\ ssh_conn = [r \in Reqs |-> 0]
    /\ sessions = <<>>
    /\ sent = [r \in Reqs |-> <<>>]
    /\ rejected = [r \in Reqs |-> 0]
    /\ exc = [r \in Reqs |-> NoExc]
    /\ netmiko_response = [r \in Reqs |-> <<>>]
    /\ status = [r \in Reqs |-> 0]
    /\ response = [r \in Reqs |-> <<>>]

Init ==
    /\ InitReqs
    /\ fmtPc = "off"
    /\ fmtIn = <<>>
    /\ fmtOut = <<>>

(***************************************************************************)
(* A request arrives.                                                      *)
(***************************************************************************)
\* requests are numbered in the order they arrive
Receive(r) ==
    /\ pc[r] = "idle"
    /\ \A q \in Reqs : q < r => pc[q] # "idle"
    /\ \E e \in Routes, b \in Bodies :
        /\ endpoint' = [endpoint EXCEPT ![r] = e]
        /\ data' = [data EXCEPT ![r] = b]
    /\ pc' = [pc EXCEPT ![r] = "received"]
    /\ UNCHANGED <<called, command, config_commands, attempts, ssh_conn,
                   sessions, sent, rejected, exc, netmiko_response, status,
                   response, fmtVars>>

(***************************************************************************)
(* The handlers, up to the call of the adapter.                            *)
(***************************************************************************)
\* except Exception as e: return jsonify({'error': str(e)}), 500
HandlerExcept(r, msg) ==
    /\ status' = [status EXCEPT ![r] = 500]
    /\ response' = [response EXCEPT ![r] = [error |-> msg]]
    /\ pc' = [pc EXCEPT ![r] = "done"]

\* the handler calls send_netmiko_request(device_info, cmd)
CallRequest(r, cmd) ==
    /\ called' = [called EXCEPT ![r] = Append(@, "send_netmiko_request")]
    /\ command' = [command EXCEPT ![r] = cmd]
    /\ pc' = [pc EXCEPT ![r] = "connect"]
    /\ UNCHANGED <<config_commands, status, response>>

\* the handler calls send_netmiko_config(device_info, cmds)
CallConfig(r, cmds) ==
    /\ called' = [called EXCEPT ![r] = Append(@, "send_netmiko_config")]
    /\ config_commands' = [config_commands EXCEPT ![r] = cmds]
    /\ pc' = [pc EXCEPT ![r] = "connect"]
    /\ UNCHANGED <<command, status, response>>

HandlerFrame ==
    UNCHANGED <<endpoint, data, attempts, ssh_conn, sessions, sent, rejected,
                exc, netmiko_response, fmtVars>>

\* a handler that refuses a body without a command
network_interaction_validates(r) ==
    /\ pc[r] = "received"
    /\ endpoint[r] = Route_network_interaction
    /\ IF data[r].object /\ data[r].command.t = "str"
       THEN CallRequest(r, data[r].command)
       ELSE /\ HandlerExcept(r, Msg_json)
            /\ UNCHANGED <<called, command, config_commands>>
    /\ HandlerFrame

network_interaction(r) ==
    /\ pc[r] = "received"
    /\ endpoint[r] = Route_network_interaction
    /\ IF data[r].object
       THEN CallRequest(r, data[r].command)
       ELSE /\ HandlerExcept(r, Msg_json)
            /\ UNCHANGED <<called, command, config_commands>>
    /\ HandlerFrame

\* a handler that refuses a body without its two fields
configure_loopback_validates(r) ==
    /\ pc[r] = "received"
    /\ endpoint[r] = Route_configure_loopback
    /\ IF /\ data[r].object
          /\ data[r].loopback_number.t = "int"
          /\ data[r].ip_address.t = "str"
       THEN CallConfig(r, configure_loopback_commands(
                              data[r].loopback_number, data[r].ip_address))
       ELSE /\ HandlerExcept(r, Msg_json)
            /\ UNCHANGED <<called, command, config_commands>>
    /\ HandlerFrame

configure_loopback(r) ==
    /\ pc[r] = "received"
    /\ endpoint[r] = Route_configure_loopback
    /\ IF data[r].object
       THEN CallConfig(r, configure_loopback_commands(
                              data[r].loopback_number, data[r].ip_address))
       ELSE /\ HandlerExcept(r, Msg_json)
            /\ UNCHANGED <<called, command, config_commands>>
    /\ HandlerFrame

delete_loopback(r) ==
    /\ pc[r] = "received"
    /\ endpoint[r] = Route_delete_loopback
    /\ IF data[r].object
       THEN CallConfig(r, delete_loopback_commands(data[r].loopback_number))
       ELSE /\ HandlerExcept(r, Msg_json)
            /\ UNCHANGED <<called, command, config_commands>>
    /\ HandlerFrame

\* a handler that takes the query from the body when it has one
device_interfaces_reads_body(r) ==
    /\ pc[r] = "received"
    /\ endpoint[r] = Route_device_interfaces
    /\ CallRequest(r, IF data[r].command.t = "str"
                      THEN data[r].command
                      ELSE JStr(S_show))
    /\ HandlerFrame

device_interfaces(r) ==
    /\ pc[r] = "received"
    /\ endpoint[r] = Route_device_interfaces
    /\ CallRequest(r, JStr(S_show))
    /\ HandlerFrame

(***************************************************************************)
(* The adapters send_netmiko_request and send_netmiko_config.              *)
(***************************************************************************)
\* return output
AdapterReturn(r, output) ==
    /\ netmiko_response' = [netmiko_response EXCEPT ![r] = output]
    /\ pc' = [pc EXCEPT ![r] = "returned"]
    /\ UNCHANGED <<exc, status, response>>

\* an adapter without its except clause: the exception reaches the handler
AdapterExcept_propagates(r, where, msg) ==
    /\ exc' = [exc EXCEPT ![r] = [where |-> where, msg |-> msg]]
    /\ HandlerExcept(r, msg)
    /\ UNCHANGED netmiko_response

\* except Exception as e: return f'Netmiko Error: {str(e)}'
AdapterExcept(r, where, msg) ==
    /\ exc' = [exc EXCEPT ![r] = [where |-> where, msg |-> msg]]
    /\ netmiko_response' = [netmiko_response EXCEPT ![r] = NetmikoError(msg)]
    /\ pc' = [pc EXCEPT ![r] = "returned"]
    /\ UNCHANGED <<status, response>>

\* with ConnectHandler(**device_info) as ssh_conn: a new session is established
ConnectHandlerOk(r) ==
    /\ pc[r] = "connect"
    /\ attempts' = [attempts EXCEPT ![r] = @ + 1]
    /\ sessions' = Append(sessions, [owner |-> r, open |-> TRUE])
    /\ ssh_conn' = [ssh_conn EXCEPT ![r] = Len(sessions) + 1]
    /\ pc' = [pc EXCEPT ![r] = "session"]
    /\ UNCHANGED <<endpoint, data, called, command, config_commands, sent,
                   rejected, exc, netmiko_response, status, response, fmtVars>>

\* a connection failure that is not caught inside the adapter
ConnectHandlerFails_propagates(r) ==
    /\ pc[r] = "connect"
    /\ attempts' = [attempts EXCEPT ![r] = @ + 1]
    /\ \E m \in ConnectErrors : AdapterExcept_propagates(r, "connect", m)
    /\ UNCHANGED <<endpoint, data, called, command, config_commands, ssh_conn,
                   sessions, sent, rejected, fmtVars>>

\* ConnectHandler raises: no session, the adapter's except clause answers
ConnectHandlerFails(r) ==
    /\ pc[r] = "connect"
    /\ attempts' = [attempts EXCEPT ![r] = @ + 1]
    /\ \E m \in ConnectErrors : AdapterExcept(r, "connect", m)
    /\ UNCHANGED <<endpoint, data, called, command, config_commands, ssh_conn,
                   sessions, sent, rejected, fmtVars>>

InSession(r, fn) ==
    /\ pc[r] = "session"
    /\ called[r][Len(called[r])] = fn

SessionFrame ==
    UNCHANGED <<endpoint, data, called, command, config_commands, attempts,
                ssh_conn, fmtVars>>

\* output = ssh_conn.send_command(command), the with block ends, return output
SendCommandReturns(r) ==
    /\ InSession(r, "send_netmiko_request")
    /\ command[r].t = "str"
    /\ \E text \in DeviceTexts :
        LET res == send_command(command[r].s, text)
        IN  /\ sent' = [sent EXCEPT ![r] = res.sent]
            /\ AdapterReturn(r, res.output)
    /\ sessions' = with_exit(sessions, ssh_conn[r], FALSE)
    /\ UNCHANGED rejected
    /\ SessionFrame

\* send_command raises (a timeout, or a command that is no string): the with
\* block disconnects, then the except clause answers
SendCommandRaises(r) ==
    /\ InSession(r, "send_netmiko_request")
    /\ IF command[r].t = "str"
       THEN /\ sent' = [sent EXCEPT ![r] = <<command[r].s>>]
            /\ \E m \in CommandErrors : AdapterExcept(r, "command", m)
       ELSE /\ UNCHANGED sent
            /\ AdapterExcept(r, "command", Msg_type)
    /\ sessions' = with_exit(sessions, ssh_conn[r], TRUE)
    /\ UNCHANGED rejected
    /\ SessionFrame

\* output = ssh_conn.send_config_set(config_commands), the with block ends,
\* return output; the device may reject one of the commands
SendConfigSetReturns(r) ==
    /\ InSession(r, "send_netmiko_config")
    /\ \E k \in 0..Len(config_commands[r]) :
        LET res == send_config_set(config_commands[r], k)
        IN  /\ sent' = [sent EXCEPT ![r] = res.sent]
            /\ rejected' = [rejected EXCEPT ![r] = k]
            /\ AdapterReturn(r, res.output)
    /\ sessions' = with_exit(sessions, ssh_conn[r], FALSE)
    /\ SessionFrame

\* send_config_set raises after j commands went out
SendConfigSetRaises(r) ==
    /\ InSession(r, "send_netmiko_config")
    /\ \E j \in 1..Len(config_commands[r]) :
        sent' = [sent EXCEPT ![r] = SubSeq(config_commands[r], 1, j)]
    /\ \E m \in CommandErrors : AdapterExcept(r, "command", m)
    /\ sessions' = with_exit(sessions, ssh_conn[r], TRUE)
    /\ UNCHANGED rejected
    /\ SessionFrame

(***************************************************************************)
(* The handler answers.                                                    *)
(***************************************************************************)
\* return jsonify(format_response(netmiko_response))
Respond(r) ==
    /\ pc[r] = "returned"
    /\ response' = [response EXCEPT ![r] = format_response(netmiko_response[r])]
    /\ status' = [status EXCEPT ![r] = 200]
    /\ pc' = [pc EXCEPT ![r] = "done"]
    /\ UNCHANGED <<endpoint, data, called, command, config_commands, attempts,
                   ssh_conn, sessions, sent, rejected, exc, netmiko_response,
                   fmtVars>>

Next ==
    \E r \in Reqs :
        \/ Receive(r)
        \/ network_interaction(r)
        \/ configure_loopback(r)
        \/ delete_loopback(r)
        \/ device_interfaces(r)
        \/ ConnectHandlerOk(r)
        \/ ConnectHandlerFails(r)
        \/ SendCommandReturns(r)
        \/ SendCommandRaises(r)
        \/ SendConfigSetReturns(r)
        \/ SendConfigSetRaises(r)
        \/ Respond(r)

Spec == Init /\ [][Next]_vars

(***************************************************************************)
(* format_response on every text up to MaxLen characters.                  *)
(***************************************************************************)
Alphabet == {"a", "b", " ", "\t", "\n"}
Texts == UNION {[1..n -> Alphabet] : n \in 0..MaxLen}

InitFmt ==
    /\ InitReqs
    /\ fmtPc = "input"
    /\ fmtIn \in Texts
    /\ fmtOut = <<>>

Format ==
    /\ fmtPc = "input"
    /\ fmtOut' = format_response(fmtIn)
    /\ fmtPc' = "formatted"
    /\ UNCHANGED <<reqVars, fmtIn>>

NextFmt == Format

SpecFmt == InitFmt /\ [][NextFmt]_vars

TypeOK ==
    /\ pc \in [Reqs -> {"idle", "received", "connect", "session", "returned", "done"}]
    /\ status \in [Reqs -> {0, 200, 500}]
    /\ attempts \in [Reqs -> 0..1]

(***************************************************************************)
(* Vocabulary of the properties.                                           *)
(***************************************************************************)
Ex_interface_Loopback5 == <<"i", "n", "t", "e", "r", "f", "a", "c", "e", " ", "L", "o", "o", "p", "b", "a", "c", "k", "5">>
Ex_ip_address == <<"i", "p", " ", "a", "d", "d", "r", "e", "s", "s", " ", "1", "0", ".", "0", ".", "0", ".", "1">>
Ex_no_interface_Loopback5 == <<"n", "o", " ", "i", "n", "t", "e", "r", "f", "a", "c", "e", " ", "L", "o", "o", "p", "b", "a", "c", "k", "5">>
Ex_NetmikoErrorLine == <<"N", "e", "t", "m", "i", "k", "o", " ", "E", "r", "r", "o", "r", ":">>
Line_Gi0 == <<"G", "i", "0", " ", "u", "p">>
Line_Gi1 == <<"G", "i", "1", " ", "d", "o", "w", "n">>

HasPrefix(s, p) == Len(s) >= Len(p) /\ SubSeq(s, 1, Len(p)) = p
After(s, p) == SubSeq(s, Len(p) + 1, Len(s))

Done(r) == pc[r] = "done"
HasField(r, f) == f \in DOMAIN response[r]
\* a 200 response whose body has netmiko_response and no error
Answered200(r) ==
    /\ status[r] = 200
    /\ HasField(r, "netmiko_response")
    /\ ~HasField(r, "error")
\* a 500 response whose body has error and no netmiko_response
Answered500(r) ==
    /\ status[r] = 500
    /\ HasField(r, "error")
    /\ ~HasField(r, "netmiko_response")

OwnedBy(r) == {sid \in DOMAIN sessions : sessions[sid].owner = r}
OpenOf(r) == {sid \in OwnedBy(r) : sessions[sid].open}

\* the value of a string of decimal digits, -1 when it is none
DigitValue(c) ==
    CASE c = "0" -> 0 [] c = "1" -> 1 [] c = "2" -> 2 [] c = "3" -> 3
      [] c = "4" -> 4 [] c = "5" -> 5 [] c = "6" -> 6 [] c = "7" -> 7
      [] c = "8" -> 8 [] c = "9" -> 9 [] OTHER -> -1
RECURSIVE DecValue(_)
DecValue(d) ==
    IF d = <<>> THEN 0
    ELSE DecValue(SubSeq(d, 1, Len(d) - 1)) * 10 + DigitValue(d[Len(d)])
\* d is how the JSON value v reads in a command
Writes(d, v) ==
    CASE v.t = "int" ->
            /\ d # <<>>
            /\ \A i \in 1..Len(d) : DigitValue(d[i]) >= 0
            /\ (Len(d) > 1 => d[1] # "0")
            /\ DecValue(d) = v.i
      [] v.t = "str" -> d = v.s
      [] OTHER -> d = <<"N", "o", "n", "e">>

(***************************************************************************)
(* C1 as stated: a request whose SSH connection could not be established  *)
(* is answered 500 with an error field and no netmiko_response field.      *)
(***************************************************************************)
C1_ConnectFailureIs500 ==
    \A r \in Reqs :
        (Done(r) /\ exc[r].where = "connect") => Answered500(r)

(***************************************************************************)
(* C1 amended: a request whose SSH connection could not be established is  *)
(* answered 200 with a netmiko_response field whose first line starts      *)
(* "Netmiko Error:", and no error field.                                   *)
(***************************************************************************)
C1_ConnectFailureIs200 ==
    \A r \in Reqs :
        (Done(r) /\ exc[r].where = "connect") =>
            /\ Answered200(r)
            /\ response[r].netmiko_response # <<>>
            /\ HasPrefix(response[r].netmiko_response[1], Ex_NetmikoErrorLine)
            /\ OwnedBy(r) = {}

C1_Witness ==
    \E r \in Reqs : Done(r) /\ exc[r].where = "connect" /\ attempts[r] = 1

(***************************************************************************)
(* C2 as stated: every answered request made exactly one connection        *)
(* attempt, and every session it opened is closed.                         *)
(***************************************************************************)
C2_EveryRequestOneSession ==
    \A r \in Reqs :
        Done(r) => (attempts[r] = 1 /\ OpenOf(r) = {})

(***************************************************************************)
(* C2 amended: a request makes at most one connection attempt (exactly one *)
(* once its handler has called the adapter, none when reading the body     *)
(* failed), holds at most one session, which no other request uses, and    *)
(* that session is closed from the moment the adapter returns, so before   *)
(* the response, on every exit path and in every interleaving.             *)
(***************************************************************************)
C2_AtMostOneSessionClosedBeforeResponse ==
    \A r \in Reqs :
        /\ attempts[r] <= 1
        /\ Cardinality(OwnedBy(r)) <= attempts[r]
        /\ (ssh_conn[r] # 0 => OwnedBy(r) = {ssh_conn[r]})
        /\ \A q \in Reqs : (q # r /\ ssh_conn[r] # 0) => ssh_conn[q] # ssh_conn[r]
        /\ (pc[r] \in {"returned", "done"} => OpenOf(r) = {})
        /\ (pc[r] = "session" => OpenOf(r) = {ssh_conn[r]})
        /\ (pc[r] \in {"returned", "done"} =>
                attempts[r] = IF called[r] # <<>> THEN 1 ELSE 0)
        /\ (Done(r) =>
                (called[r] # <<>>) =
                    (data[r].object \/ endpoint[r] = Route_device_interfaces))

C2_Witness ==
    \E r, q \in Reqs :
        /\ r # q
        /\ Done(r) /\ exc[r].where = "command" /\ OwnedBy(r) # {}
        /\ pc[q] = "session"

(***************************************************************************)
(* C3: format_response returns, under the one key netmiko_response, the    *)
(* non-blank lines of its input, each trimmed, in their order: every line  *)
(* is non-empty, starts and ends with a non-whitespace character, holds no *)
(* newline, and the lines sit in the input one after the other, separated  *)
(* by at least one newline, with only whitespace outside them.  A text of  *)
(* whitespace only, or the empty text, gives the empty sequence.           *)
(***************************************************************************)
TrimmedLinesOf(out, s) ==
    /\ \A i \in 1..Len(out) :
        /\ out[i] # <<>>
        /\ out[i][1] \notin Whitespace
        /\ out[i][Len(out[i])] \notin Whitespace
        /\ \A j \in 1..Len(out[i]) : out[i][j] # "\n"
    /\ \E start \in [1..Len(out) -> 1..Len(s)] :
        LET end(i) == start[i] + Len(out[i]) - 1
        IN  /\ \A i \in 1..Len(out) :
                /\ end(i) <= Len(s)
                /\ SubSeq(s, start[i], end(i)) = out[i]
            /\ \A i \in 1..(Len(out) - 1) :
                \E p \in (end(i) + 1)..(start[i + 1] - 1) : s[p] = "\n"
            /\ \A p \in 1..Len(s) :
                (\A i \in 1..Len(out) : p < start[i] \/ p > end(i))
                    => s[p] \in Whitespace

C3_FormatterKeepsTrimmedNonBlankLines ==
    fmtPc = "formatted" =>
        /\ DOMAIN fmtOut = {"netmiko_response"}
        /\ TrimmedLinesOf(fmtOut.netmiko_response, fmtIn)
        /\ ((\A p \in 1..Len(fmtIn) : fmtIn[p] \in Whitespace)
                => fmtOut.netmiko_response = <<>>)

C3_Witness ==
    /\ fmtPc = "formatted"
    /\ fmtIn = <<" ", "a", "\n", "b">>
    /\ fmtOut.netmiko_response = << <<"a">>, <<"b">> >>

(***************************************************************************)
(* C4: /configure_loopback with loopback_number n and ip_address a in the  *)
(* body makes one configuration call, with exactly the four commands       *)
(* "interface Loopback<n>", "ip address <a>", "commit", "exit" in that     *)
(* order; for n = 5 and a = 10.0.0.1 they are the literal commands.        *)
(***************************************************************************)
C4_ConfigureLoopbackCommands ==
    \A r \in Reqs :
        ( /\ endpoint[r] = Route_configure_loopback
          /\ pc[r] \notin {"idle", "received"}
          /\ data[r].object
          /\ data[r].loopback_number # JNone
          /\ data[r].ip_address # JNone ) =>
            /\ called[r] = <<"send_netmiko_config">>
            /\ Len(config_commands[r]) = 4
            /\ HasPrefix(config_commands[r][1], S_interface)
            /\ Writes(After(config_commands[r][1], S_interface),
                      data[r].loopback_number)
            /\ HasPrefix(config_commands[r][2], S_ip_address)
            /\ Writes(After(config_commands[r][2], S_ip_address),
                      data[r].ip_address)
            /\ config_commands[r][3] = <<"c", "o", "m", "m", "i", "t">>
            /\ config_commands[r][4] = <<"e", "x", "i", "t">>
            /\ ( ( /\ data[r].loopback_number = JInt(5)
                   /\ data[r].ip_address = JStr(Addr_10_0_0_1) ) =>
                    config_commands[r] =
                        << Ex_interface_Loopback5, Ex_ip_address,
                           <<"c", "o", "m", "m", "i", "t">>,
                           <<"e", "x", "i", "t">> >> )
            /\ (pc[r] \in {"returned", "done"} /\ exc[r].where = "none"
                    => sent[r] = config_commands[r])

C4_Witness ==
    \E r \in Reqs :
        /\ endpoint[r] = Route_configure_loopback
        /\ data[r].loopback_number = JInt(5)
        /\ data[r].ip_address = JStr(Addr_10_0_0_1)
        /\ Done(r)
        /\ sent[r] = config_commands[r]
        /\ Len(sent[r]) = 4

(***************************************************************************)
(* C5: /delete_loopback with loopback_number n in the body makes one       *)
(* configuration call, with exactly the three commands                     *)
(* "no interface Loopback<n>", "commit", "exit" in that order, and no      *)
(* command it sends declares an interface or assigns an address.           *)
(***************************************************************************)
C5_DeleteLoopbackCommands ==
    \A r \in Reqs :
        ( /\ endpoint[r] = Route_delete_loopback
          /\ pc[r] \notin {"idle", "received"}
          /\ data[r].object
          /\ data[r].loopback_number # JNone ) =>
            /\ called[r] = <<"send_netmiko_config">>
            /\ Len(config_commands[r]) = 3
            /\ HasPrefix(config_commands[r][1], S_no_interface)
            /\ Writes(After(config_commands[r][1], S_no_interface),
                      data[r].loopback_number)
            /\ config_commands[r][2] = <<"c", "o", "m", "m", "i", "t">>
            /\ config_commands[r][3] = <<"e", "x", "i", "t">>
            /\ (data[r].loopback_number = JInt(5) =>
                    config_commands[r][1] = Ex_no_interface_Loopback5)
            /\ \A i \in 1..Len(sent[r]) :
                /\ sent[r][i] = config_commands[r][i]
                /\ ~HasPrefix(sent[r][i], S_interface)
                /\ ~HasPrefix(sent[r][i], S_ip_address)

C5_Witness ==
    \E r \in Reqs :
        /\ endpoint[r] = Route_delete_loopback
        /\ data[r].loopback_number = JInt(5)
        /\ Done(r)
        /\ Len(sent[r]) = 3

(***************************************************************************)
(* C6: /device_interfaces calls the query adapter once with the command    *)
(* "show ip interface brief" whatever the body holds, and when the device  *)
(* answers the query with a text the response is 200, its body has only    *)
(* netmiko_response, and that is the non-blank trimmed lines of the text.  *)
(***************************************************************************)
ExpectedLines(text) ==
    CASE text = Text_brief -> <<Line_Gi0, Line_Gi1>>
      [] text = Text_blank -> <<>>

C6_DeviceInterfacesQuery ==
    \A r \in Reqs :
        ( /\ endpoint[r] = Route_device_interfaces
          /\ pc[r] \notin {"idle", "received"} ) =>
            /\ called[r] = <<"send_netmiko_request">>
            /\ command[r].t = "str"
            /\ command[r].s = <<"s", "h", "o", "w", " ", "i", "p", " ",
                                "i", "n", "t", "e", "r", "f", "a", "c", "e",
                                " ", "b", "r", "i", "e", "f">>
            /\ (sent[r] # <<>> => sent[r] = <<command[r].s>>)
            /\ ( (Done(r) /\ exc[r].where = "none") =>
                    /\ status[r] = 200
                    /\ DOMAIN response[r] = {"netmiko_response"}
                    /\ netmiko_response[r] \in DeviceTexts
                    /\ response[r].netmiko_response =
                            ExpectedLines(netmiko_response[r]) )

C6_Witness ==
    \E r \in Reqs :
        /\ endpoint[r] = Route_device_interfaces
        /\ data[r].command = JStr(Cmd_show_version)
        /\ Done(r)
        /\ netmiko_response[r] = Text_brief
        /\ response[r] = [netmiko_response |-> <<Line_Gi0, Line_Gi1>>]

(***************************************************************************)
(* C7 as stated: /network_interaction with a JSON body that has no command *)
(* field is answered 500 with an error body, and the next request can     *)
(* still arrive.                                                           *)
(***************************************************************************)
NextToArrive(q) ==
    /\ pc[q] = "idle"
    /\ \A p \in Reqs : p < q => pc[p] # "idle"

NoCommand(r) ==
    /\ endpoint[r] = Route_network_interaction
    /\ data[r].object
    /\ data[r].command = JNone

C7_MissingCommandIs500 ==
    \A r \in Reqs :
        (NoCommand(r) /\ Done(r)) =>
            /\ Answered500(r)
            /\ \A q \in Reqs : NextToArrive(q) => ENABLED Receive(q)

(***************************************************************************)
(* C7 amended: /network_interaction with a JSON body that has no command   *)
(* field calls the query adapter with None, makes its connection attempt   *)
(* and is answered 200 with a netmiko_response body and no error field;    *)
(* the next request can still arrive.                                      *)
(***************************************************************************)
C7_MissingCommandIs200 ==
    \A r \in Reqs :
        (NoCommand(r) /\ Done(r)) =>
            /\ called[r] = <<"send_netmiko_request">>
            /\ command[r] = JNone
            /\ attempts[r] = 1
            /\ Answered200(r)
            /\ \A q \in Reqs : NextToArrive(q) => ENABLED Receive(q)

C7_Witness ==
    \E r, q \in Reqs :
        /\ NoCommand(r) /\ Done(r) /\ status[r] = 200
        /\ exc[r].where = "command"
        /\ pc[q] = "idle"

(***************************************************************************)
(* C8: when the device rejects a command of the configuration sequence of  *)
(* /configure_loopback or /delete_loopback, every command of the sequence  *)
(* was still sent, in order, the session is closed, and the response is    *)
(* 200 with a netmiko_response body that holds the device's error line     *)
(* and no error field.                                                     *)
(***************************************************************************)
C8_RejectedCommandStillAnswered200 ==
    \A r \in Reqs :
        ( /\ endpoint[r] \in {Route_configure_loopback, Route_delete_loopback}
          /\ rejected[r] > 0
          /\ pc[r] \in {"returned", "done"} ) =>
            /\ sent[r] = config_commands[r]
            /\ ssh_conn[r] # 0
            /\ ~sessions[ssh_conn[r]].open
            /\ (Done(r) =>
                    /\ Answered200(r)
                    /\ \E i \in 1..Len(response[r].netmiko_response) :
                            response[r].netmiko_response[i] = Dev_invalid)

C8_Witness ==
    \E r \in Reqs :
        /\ endpoint[r] = Route_configure_loopback
        /\ data[r].loopback_number = JInt(5)
        /\ rejected[r] = 3
        /\ Done(r)
        /\ Len(sent[r]) = 4

(***************************************************************************)
(* C9 as stated: /configure_loopback and /delete_loopback answer 500 with  *)
(* an error body, never 200, when a required field of the JSON body is     *)
(* missing or malformed.                                                   *)
(***************************************************************************)
Deficient(r) ==
    /\ endpoint[r] \in {Route_configure_loopback, Route_delete_loopback}
    /\ data[r].object
    /\ \/ data[r].loopback_number.t # "int"
       \/ /\ endpoint[r] = Route_configure_loopback
          /\ data[r].ip_address.t # "str"

C9_MissingFieldIs500 ==
    \A r \in Reqs :
        (Deficient(r) /\ Done(r)) => Answered500(r)

(***************************************************************************)
(* C9 amended: for /configure_loopback and /delete_loopback a JSON object  *)
(* body with a required field missing or malformed raises no error: the    *)
(* missing value is written "None" (a malformed one as its text) into the  *)
(* command, the configuration call is made, and the response is 200 with   *)
(* a netmiko_response body; only a body that is no JSON object is answered *)
(* 500 with an error body, and then the device is not contacted.           *)
(***************************************************************************)
C9_MissingFieldIs200 ==
    \A r \in Reqs :
        /\ (Deficient(r) /\ Done(r)) =>
            /\ called[r] = <<"send_netmiko_config">>
            /\ attempts[r] = 1
            /\ Answered200(r)
            /\ (data[r].loopback_number = JNone =>
                    \/ config_commands[r][1] = S_interface \o <<"N", "o", "n", "e">>
                    \/ config_commands[r][1] = S_no_interface \o <<"N", "o", "n", "e">>)
            /\ ( ( /\ endpoint[r] = Route_configure_loopback
                   /\ data[r].ip_address = JNone ) =>
                    config_commands[r][2] = S_ip_address \o <<"N", "o", "n", "e">> )
        /\ ( ( /\ endpoint[r] \in {Route_configure_loopback, Route_delete_loopback}
               /\ ~data[r].object
               /\ Done(r) ) =>
                /\ Answered500(r)
                /\ attempts[r] = 0
                /\ called[r] = <<>> )

C9_Witness ==
    \E r \in Reqs :
        /\ endpoint[r] = Route_configure_loopback
        /\ data[r].loopback_number = JInt(120)
        /\ data[r].ip_address = JNone
        /\ Done(r)
        /\ status[r] = 200

(***************************************************************************)
(* C10: once a handler has called send_netmiko_request or                  *)
(* send_netmiko_config it gets a text back whatever happened: the text     *)
(* "Netmiko Error: <message>" when Netmiko raised, and the handler then    *)
(* answers with the formatter's output, status 200, never with the error   *)
(* body of its own except clause.                                          *)
(***************************************************************************)
IsText(x) ==
    /\ DOMAIN x = 1..Len(x)
    /\ \A i \in 1..Len(x) : x[i] \in STRING

C10_AdapterNeverRaises ==
    \A r \in Reqs :
        called[r] # <<>> =>
            /\ pc[r] \in {"connect", "session", "returned", "done"}
            /\ (pc[r] \in {"returned", "done"} =>
                    /\ IsText(netmiko_response[r])
                    /\ (exc[r].where # "none" =>
                            /\ HasPrefix(netmiko_response[r], S_NetmikoError)
                            /\ After(netmiko_response[r], S_NetmikoError) = exc[r].msg))
            /\ (exc[r].where # "none" => pc[r] \in {"returned", "done"})
            /\ (Done(r) => Answered200(r))

C10_Witness ==
    \E r \in Reqs :
        /\ Done(r)
        /\ exc[r].where = "command"
        /\ exc[r].msg = Msg_timeout
        /\ endpoint[r] = Route_delete_loopback
        /\ status[r] = 200

====
